---- MODULE Spec2Model ----
(***************************************************************************)
(* Model of the live-reload development server of build318: serve() and    *)
(* the SSEManager class of src/serve.ts (src/unnamed/part_008, lines       *)
(* 1-177), with copyAllAssets of src/copyfiles.ts.                         *)
(*                                                                         *)
(* Node runs one callback at a time.  Every action below is one callback   *)
(* (an event handler, or the continuation of an await), run to its end.    *)
(* Callbacks queued with process.nextTick run before any other event; the  *)
(* variable nextTickQueue holds them and every other action waits for it   *)
(* to be empty.                                                            *)
(*                                                                         *)
(* Spec is serve() as a whole, FairSpec adds what the runtime does by      *)
(* itself, SpecHub is the SSEManager class with its methods called in any  *)
(* order, SpecStatic is the request listener of a listening server with    *)
(* the paths, the files and the response bodies spelled out.               *)
(***************************************************************************)
EXTENDS Integers, Sequences, FiniteSets, Bags, TLC

\* ------------------------------------------------------------------ bounds
MaxClients == 2       \* browsers that may open a reload connection
MaxPairs == 2         \* length of copyPairs
MaxEvents == 2        \* filesystem change events delivered to the watchers
MaxSignals == 2       \* SIGINT deliveries
MaxRequests == 1      \* static file requests
MaxCalls == 4         \* Hub method calls made by the Hub harness (SpecHub)
MaxInputs == 5        \* connections, requests, change events and signals in all
SrcFiles == 1         \* files under src when the source watcher is created
MaxArgs == 4          \* words on the command line after the script name
MaxLines == 2         \* lines in an environment file
MaxGets == 2          \* requests received by the request listener (SpecStatic)

Conn == 1..MaxClients

VARIABLES
    shouldWatch,    \* serve(): parameter shouldWatch
    nPairs,         \* serve(): copyPairs.length
    pc,             \* serve(): "copy", "rebuild" (awaits), "pending" (promise
                    \* returned), "rejected", "resolved"; "harness" when the
                    \* SSEManager is driven alone and serve() is not running
    copied,         \* copyAllAssets at startup: pairs copied so far
    server,         \* http.Server: "none", "bound", "listening", "closing",
                    \* "closed", "failed"
    closeCallbacks, \* listeners added by server.close(cb)
    nextTickQueue,  \* callbacks queued by process.nextTick
    assetWatcher,   \* "null", "watching", "closed"
    sourceWatcher,  \* "null", "watching", "closed"
    copyCycles,     \* asset watcher handlers awaiting copyAllAssets: a bag
                    \* of [todo, done], the pairs still to copy and copied
    rebuildCycles,  \* rebuild() calls of the source watcher awaiting ctx.rebuild
    events,         \* watch events delivered so far
    signals,        \* SIGINTs delivered so far
    served,         \* static requests: reading (fs.readFile pending), done
    clients,        \* SSEManager.clients
    conn,           \* per connection: the request/response pair of GET /__reload
    errors,         \* 'error' events raised by a write on a response
    broadcasts,     \* calls of sendReload so far
    calls,          \* Hub methods called by the harness so far
    failed,         \* the startup step that failed: "none", "copy", "rebuild",
                    \* "bind"
    log,            \* the startup and shutdown steps, in the order they ran
    exitCode,       \* "running", "exit0" (process.exit(0)), "crash" (uncaught
                    \* exception), "killed" (SIGINT without a handler)
    logged,         \* what the watch cycles printed so far: rebuilt ("Rebuilt
                    \* source"), buildErrors ("Build error:"), assetsCopied
                    \* ("Assets copied"), unhandled (rejections nobody caught)
    initialAdds,    \* 'add' events of the watchers' first scan not yet
                    \* delivered: asset, source
    http,           \* the request listener in detail: received (urls, in the
                    \* order they came), reading (fs.readFile pending),
                    \* responses (sent)
    cli,            \* parseArgs: st ("idle", "parsing", "returned", "exited"),
                    \* left (args.length), shifted (what the loop took off
                    \* args so far), mode, opts, log (console.log), exits
                    \* (process.exit), result
    dotenv          \* loadEnv: st, testing, the three files on disk, reads
                    \* (readFileSync calls), result

hubVars == <<clients, conn, errors, broadcasts>>
serveVars == <<shouldWatch, nPairs, pc, copied, server, closeCallbacks,
               nextTickQueue, assetWatcher, sourceWatcher, copyCycles,
               rebuildCycles, events, signals, served, failed, log, exitCode,
               logged, initialAdds, http, cli, dotenv>>
serveVars0 == <<shouldWatch, nPairs, pc, copied, server, closeCallbacks,
                nextTickQueue, assetWatcher, sourceWatcher, copyCycles,
                rebuildCycles, events, signals, served, failed, log, exitCode,
                logged, initialAdds, http>>
vars == <<shouldWatch, nPairs, pc, copied, server, closeCallbacks,
          nextTickQueue, assetWatcher, sourceWatcher, copyCycles,
          rebuildCycles, events, signals, served, clients, conn, errors,
          broadcasts, calls, failed, log, exitCode, logged, initialAdds, http,
          cli, dotenv>>

\* ------------------------------------------------------------- SSEManager
\* A connection: st is "none" (no request yet), "open" (request accepted),
\* "destroyed" (socket gone, the request's close event not yet delivered),
\* "closed" (close event delivered).  writes counts the "data: reload"
\* messages written to the response, dropped those of them written when the
\* socket was gone, ends the calls of res.end().  closedAt and endedAt
\* remember how many broadcasts had been made when the close event was
\* handled and when the response was last ended.
NoConn ==
    [st |-> "none", writes |-> 0, dropped |-> 0, ends |-> 0, closedAt |-> 0,
     endedAt |-> 0]

\* A response right after SSEManager.handle wrote its head (lines 21-26).
Accepted ==
    [st |-> "open", writes |-> 0, dropped |-> 0, ends |-> 0, closedAt |-> 0,
     endedAt |-> 0]

\* The Hub with the responses it holds, as one value.
Hub == [clients |-> clients, conn |-> conn, errors |-> errors,
        broadcasts |-> broadcasts]

SetHub(h) ==
    /\ clients' = h.clients
    /\ conn' = h.conn
    /\ errors' = h.errors
    /\ broadcasts' = h.broadcasts

\* Array.prototype.indexOf, 1-based; 0 when absent.
indexOf(s, x) ==
    IF \E i \in 1..Len(s) : s[i] = x
    THEN CHOOSE i \in 1..Len(s) : s[i] = x /\ \A j \in 1..(i - 1) : s[j] # x
    ELSE 0

\* Array.prototype.splice(idx, 1).
splice(s, idx) == [i \in 1..(Len(s) - 1) |-> IF i < idx THEN s[i] ELSE s[i + 1]]

\* res.write("data: reload\n\n") on one response.  A write on a response that
\* was ended while its socket is still there emits 'error' (write after end);
\* a write on a destroyed socket is dropped silently.
write(h, c) ==
    [h EXCEPT !.conn[c].writes = @ + 1,
              !.conn[c].dropped = IF h.conn[c].st = "destroyed" THEN @ + 1 ELSE @,
              !.errors = IF h.conn[c].ends > 0 /\ h.conn[c].st = "open"
                         THEN @ + 1 ELSE @]

\* res.end() on one response.
end(h, c) == [h EXCEPT !.conn[c].ends = @ + 1, !.conn[c].endedAt = h.broadcasts]

\* SSEManager.handle, up to the installation of the close listener.
handle(h, c) ==
    [h EXCEPT !.conn[c] = Accepted,
              !.clients = Append(@, c)]

onClose_keep(h, c) ==
    [h EXCEPT !.conn[c].st = "closed", !.conn[c].closedAt = h.broadcasts]

onClose_pop(h, c) ==
    [h EXCEPT !.conn[c].st = "closed", !.conn[c].closedAt = h.broadcasts,
              !.clients = IF Len(@) > 0 THEN SubSeq(@, 1, Len(@) - 1) ELSE @]

\* The listener of the request's close event installed by SSEManager.handle.
onClose(h, c) ==
    LET idx == indexOf(h.clients, c)
        g == [h EXCEPT !.conn[c].st = "closed", !.conn[c].closedAt = h.broadcasts]
    IN  IF idx >= 1 THEN [g EXCEPT !.clients = splice(@, idx)] ELSE g

RECURSIVE forEachWrite_stopAtFailure(_, _, _)
forEachWrite_stopAtFailure(h, list, i) ==
    IF i > Len(list) \/ h.conn[list[i]].st = "destroyed"
    THEN h
    ELSE forEachWrite_stopAtFailure(write(h, list[i]), list, i + 1)

\* The loop of sendReload (lines 38-40): no write throws, so every client of
\* the list is written to.
RECURSIVE forEachWrite(_, _, _)
forEachWrite(h, list, i) ==
    IF i > Len(list) THEN h ELSE forEachWrite(write(h, list[i]), list, i + 1)

sendReload_skipFirst(h) ==
    [forEachWrite(h, h.clients, 2) EXCEPT !.broadcasts = @ + 1]

\* SSEManager.sendReload.
sendReload(h) ==
    [forEachWrite(h, h.clients, 1) EXCEPT !.broadcasts = @ + 1]

RECURSIVE forEachEnd(_, _, _)
forEachEnd(h, list, i) ==
    IF i > Len(list) THEN h ELSE forEachEnd(end(h, list[i]), list, i + 1)

closeAll_noClear(h) == forEachEnd(h, h.clients, 1)

closeAll_noEnd(h) == [h EXCEPT !.clients = <<>>]

\* SSEManager.closeAll.
closeAll(h) == [forEachEnd(h, h.clients, 1) EXCEPT !.clients = <<>>]


\* -------------------------------------------------------------- parseArgs
\* The value of args.shift() on an empty array, and of a variable not set.
undefined == "undefined"

\* The words the command line is made of.
Tokens ==
    {"serve", "build", "invalidmode",
     "-p", "-d", "--dist", "-e", "-o", "-c", "-t", "-h", "--unknown",
     "8080", "65535", "65536", "80.5", "abc", "0", "",
     "src:dest", "src:", "a:b:c", "invalidpair"}

\* The characters of each word.
chars ==
    [t \in Tokens |->
        CASE t = "serve" -> <<"s", "e", "r", "v", "e">>
          [] t = "build" -> <<"b", "u", "i", "l", "d">>
          [] t = "invalidmode" -> <<"i", "n", "v", "a", "l", "i", "d", "m", "o", "d", "e">>
          [] t = "-p" -> <<"-", "p">>
          [] t = "-d" -> <<"-", "d">>
          [] t = "--dist" -> <<"-", "-", "d", "i", "s", "t">>
          [] t = "-e" -> <<"-", "e">>
          [] t = "-o" -> <<"-", "o">>
          [] t = "-c" -> <<"-", "c">>
          [] t = "-t" -> <<"-", "t">>
          [] t = "-h" -> <<"-", "h">>
          [] t = "--unknown" -> <<"-", "-", "u", "n", "k", "n", "o", "w", "n">>
          [] t = "8080" -> <<"8", "0", "8", "0">>
          [] t = "65535" -> <<"6", "5", "5", "3", "5">>
          [] t = "65536" -> <<"6", "5", "5", "3", "6">>
          [] t = "80.5" -> <<"8", "0", ".", "5">>
          [] t = "abc" -> <<"a", "b", "c">>
          [] t = "0" -> <<"0">>
          [] t = "" -> <<>>
          [] t = "src:dest" -> <<"s", "r", "c", ":", "d", "e", "s", "t">>
          [] t = "src:" -> <<"s", "r", "c", ":">>
          [] t = "a:b:c" -> <<"a", ":", "b", ":", "c">>
          [] t = "invalidpair" -> <<"i", "n", "v", "a", "l", "i", "d", "p", "a", "i", "r">>]

\* Line 7.
validModes == {"build", "serve", "profile"}

\* A JavaScript number: NaN, or the fraction num / den in lowest decimal terms.
NaN == [nan |-> TRUE, num |-> 0, den |-> 1]

RECURSIVE number(_, _)
number(num, den) ==
    IF den > 1 /\ num % 10 = 0 THEN number(num \div 10, den \div 10)
    ELSE [nan |-> FALSE, num |-> num, den |-> den]

Digits == {"0", "1", "2", "3", "4", "5", "6", "7", "8", "9"}

digitValue ==
    [ch \in Digits |->
        CASE ch = "0" -> 0 [] ch = "1" -> 1 [] ch = "2" -> 2 [] ch = "3" -> 3
          [] ch = "4" -> 4 [] ch = "5" -> 5 [] ch = "6" -> 6 [] ch = "7" -> 7
          [] ch = "8" -> 8 [] ch = "9" -> 9]

\* The digits of cs read as one decimal number, the point left out.
RECURSIVE decimal(_, _)
decimal(cs, acc) ==
    IF cs = <<>> THEN acc
    ELSE decimal(Tail(cs),
                 IF Head(cs) = "." THEN acc ELSE 10 * acc + digitValue[Head(cs)])

RECURSIVE pow10(_)
pow10(k) == IF k = 0 THEN 1 ELSE 10 * pow10(k - 1)

\* Number(val), line 98: undefined is NaN, the empty string is 0, a decimal
\* literal (sign, digits, at most one point) is its value, fraction included,
\* and any other text is NaN.
Number(val) ==
    IF val = undefined THEN NaN
    ELSE LET cs == chars[val]
             signed == cs # <<>> /\ cs[1] \in {"-", "+"}
             body == IF signed THEN Tail(cs) ELSE cs
             dots == {i \in 1..Len(body) : body[i] = "."}
         IN IF cs = <<>> THEN number(0, 1)
            ELSE IF \/ \E i \in 1..Len(body) : body[i] \notin Digits \cup {"."}
                    \/ Cardinality(dots) > 1
                    \/ Len(body) = Cardinality(dots)
                 THEN NaN
            ELSE LET n == decimal(body, 0)
                     places == IF dots = {} THEN 0
                               ELSE Len(body) - (CHOOSE i \in dots : TRUE)
                 IN number(IF cs[1] = "-" THEN 0 - n ELSE n, pow10(places))

\* !val, for a string or undefined.
falsy(val) == val = undefined \/ val = ""

\* Line 99.
invalidPort(val) ==
    LET port == Number(val)
    IN falsy(val) \/ port.nan \/ port.num <= 0 \/ port.num > 65535 * port.den

\* arg.startsWith("-"), line 75.
startsWith(arg, ch) == chars[arg] # <<>> /\ chars[arg][1] = ch

\* copyRegex.test(val), line 67: /^[^:]+:[^:]*$/.
copyRegex(val) ==
    LET cs == chars[val]
        colons == {i \in 1..Len(cs) : cs[i] = ":"}
    IN Cardinality(colons) = 1 /\ cs[1] # ":"

\* val.split(":"), line 156.
RECURSIVE split(_, _)
split(cs, sep) ==
    IF \A i \in 1..Len(cs) : cs[i] # sep THEN <<cs>>
    ELSE LET i == CHOOSE k \in 1..Len(cs) :
                      cs[k] = sep /\ \A j \in 1..(k - 1) : cs[j] # sep
         IN <<SubSeq(cs, 1, i - 1)>> \o split(SubSeq(cs, i + 1, Len(cs)), sep)

\* const [from, to] = val.split(":"), lines 156-157.
copyPair(val) ==
    LET parts == split(chars[val], ":")
    IN [from |-> parts[1], to |-> parts[2]]

\* Lines 22-29.
defaultOptions ==
    [mode |-> "build", port |-> number(1234, 1), dist |-> "dist",
     entry |-> "src/main.ts", output |-> "main.js", testing |-> FALSE]

\* opts[key] = value.
assign(opts, key, value) ==
    [k \in DOMAIN opts \cup {key} |-> IF k = key THEN value ELSE opts[k]]

spread_firstWins(a, b) ==
    [k \in DOMAIN a \cup DOMAIN b |-> IF k \in DOMAIN a THEN a[k] ELSE b[k]]

\* { ...a, ...b }: the keys of both, b's value where both have the key.
spread(a, b) ==
    [k \in DOMAIN a \cup DOMAIN b |-> IF k \in DOMAIN b THEN b[k] ELSE a[k]]

push_replace(copy, pair) == <<pair>>

\* copy.push(pair), line 157.
push(copy, pair) == Append(copy, pair)

\* parseArgs not called.
NoCli ==
    [st |-> "idle", left |-> 0, shifted |-> <<>>, mode |-> undefined,
     opts |-> [copy |-> <<>>], log |-> <<>>, exits |-> <<>>, result |-> <<>>]

\* console.log of one message; arg is the value the template prints.
consoleLog(c, text, arg) ==
    [c EXCEPT !.log = Append(@, [text |-> text, arg |-> arg])]

\* usage(name), lines 31-55.
usage(c) == consoleLog(c, "Usage:", "build318")

\* process.exit(code): the process ends there.
exit(c, code) == [c EXCEPT !.st = "exited", !.exits = Append(@, code)]

\* The three lines of every error: the message, the usage text, exit(1).
fail(c, text, arg) == exit(usage(consoleLog(c, text, arg)), 1)

\* Lines 75-92: a word that does not start with "-".
positional(c, arg) ==
    IF c.mode # undefined THEN fail(c, "Unexpected argument", arg)
    ELSE IF arg \notin validModes THEN fail(c, "Invalid mode", arg)
    ELSE [c EXCEPT !.mode = arg]

missing_onlyUndefined(val) == val = undefined

\* if (!val), lines 113, 125, 137.
missing(val) == falsy(val)

\* Lines 110-144: -d, -e and -o differ only in the key they set.
pathOption(c, key, arg, val) ==
    IF missing(val) THEN fail(c, "Missing value for", arg)
    ELSE [c EXCEPT !.opts = assign(@, key, val)]

\* Lines 94-178: the switch on a word that starts with "-"; val is what a
\* second args.shift() returns.
option(c, arg, val) ==
    CASE arg \in {"-p", "--port"} ->
            IF invalidPort(val) THEN fail(c, "Invalid port number", val)
            ELSE [c EXCEPT !.opts = assign(@, "port", Number(val))]
      [] arg \in {"-d", "--dist"} -> pathOption(c, "dist", arg, val)
      [] arg \in {"-e", "--entry"} -> pathOption(c, "entry", arg, val)
      [] arg \in {"-o", "--output"} -> pathOption(c, "output", arg, val)
      [] arg \in {"-c", "--copy"} ->
            IF falsy(val) \/ ~copyRegex(val)
            THEN fail(c, "Invalid copy pair", val)
            ELSE [c EXCEPT !.opts = assign(@, "copy", push(@.copy, copyPair(val)))]
      [] arg \in {"-t", "--testing"} ->
            [c EXCEPT !.opts = assign(@, "testing", TRUE)]
      [] arg \in {"-h", "--help"} -> exit(usage(c), 0)
      [] OTHER -> fail(c, "Unknown option", arg)

\* The options whose case shifts a value off args.
takesValue(arg) ==
    arg \in {"-p", "--port", "-d", "--dist", "-e", "--entry", "-o", "--output",
             "-c", "--copy"}

\* One turn of the loop of lines 69-179 on the word arg, next being the word
\* after it when there is one.
iteration(c, arg, next) ==
    LET val == IF c.left >= 2 THEN next ELSE undefined
        one == [c EXCEPT !.left = @ - 1,
                         !.shifted = Append(@, [arg |-> arg, val |-> undefined])]
        two == [c EXCEPT !.left = IF @ >= 2 THEN @ - 2 ELSE 0,
                         !.shifted = Append(@, [arg |-> arg, val |-> val])]
    IN IF ~startsWith(arg, "-") THEN positional(one, arg)
       ELSE IF takesValue(arg) THEN option(two, arg, val)
       ELSE option(one, arg, undefined)

\* Lines 181-185.
returned(c) ==
    spread(spread(defaultOptions, c.opts),
           [mode |-> IF c.mode = undefined THEN defaultOptions.mode ELSE c.mode])

\* ---------------------------------------------------------------- loadEnv
\* Lines 5-7.
defaultEnvFile == ".env"
localEnvFile == ".env.local"
testingEnvFile == ".env.test"

\* The lines an environment file is made of.
Lines == {"A=1", "export A=2", "B='x'", "# A=9", " C = \"y\" ", "junk"}

\* The characters of each line.
lineChars ==
    [l \in Lines |->
        CASE l = "A=1" -> <<"A", "=", "1">>
          [] l = "export A=2" -> <<"e", "x", "p", "o", "r", "t", " ", "A", "=", "2">>
          [] l = "B='x'" -> <<"B", "=", "'", "x", "'">>
          [] l = "# A=9" -> <<"#", " ", "A", "=", "9">>
          [] l = " C = \"y\" " -> <<" ", "C", " ", "=", " ", "\"", "y", "\"", " ">>
          [] l = "junk" -> <<"j", "u", "n", "k">>]

\* The text of a file with the given lines: the lines joined by "\n".
RECURSIVE join(_)
join(ls) ==
    IF ls = <<>> THEN <<>>
    ELSE IF Len(ls) = 1 THEN lineChars[ls[1]]
    ELSE lineChars[ls[1]] \o <<"\n">> \o join(Tail(ls))

\* What existsSync and readFileSync can find at a path: no file, or a file of
\* up to MaxLines lines.
FileStates ==
    {[exists |-> FALSE, text |-> <<>>]}
        \cup {[exists |-> TRUE, text |-> join(ls)] :
                ls \in UNION {[1..n -> Lines] : n \in 0..MaxLines}}

\* String.prototype.trim on the characters of a line.
RECURSIVE trim(_)
trim(cs) ==
    IF cs = <<>> THEN cs
    ELSE IF Head(cs) = " " THEN trim(Tail(cs))
    ELSE IF cs[Len(cs)] = " " THEN trim(SubSeq(cs, 1, Len(cs) - 1))
    ELSE cs

\* trimmed.replace(/^export\s+/, ""), line 28.
RECURSIVE trimStart(_)
trimStart(cs) == IF cs # <<>> /\ Head(cs) = " " THEN trimStart(Tail(cs)) ELSE cs

removeExport(cs) ==
    IF /\ Len(cs) >= 7
       /\ SubSeq(cs, 1, 6) = <<"e", "x", "p", "o", "r", "t">>
       /\ cs[7] = " "
    THEN trimStart(SubSeq(cs, 7, Len(cs)))
    ELSE cs

\* JSON.parse of the text between double quotes, the raw text kept when the
\* parse throws (lines 43-50); the lines of Lines hold no backslash, so the
\* parse either returns the text as it is or throws.
jsonParse(raw) == raw

\* Lines 38-51: surrounding quotes removed.
unquote(value) ==
    LET quoted(q) == value # <<>> /\ Head(value) = q /\ value[Len(value)] = q
        inner == SubSeq(value, 2, Len(value) - 1)
    IN IF quoted("'") THEN inner
       ELSE IF quoted("\"") THEN jsonParse(inner)
       ELSE value

\* Lines 19-54: one line of the file put into env.
parseLine(env, line) ==
    LET trimmed == trim(line)
        keyValue == removeExport(trimmed)
        eqIndex == indexOf(keyValue, "=")
        key == trim(SubSeq(keyValue, 1, eqIndex - 1))
        value == unquote(trim(SubSeq(keyValue, eqIndex + 1, Len(keyValue))))
    IN IF trimmed = <<>> \/ Head(trimmed) = "#" THEN env
       ELSE IF eqIndex = 0 THEN env
       ELSE [k \in DOMAIN env \cup {key} |-> IF k = key THEN value ELSE env[k]]

RECURSIVE parseLines(_, _)
parseLines(env, lines) ==
    IF lines = <<>> THEN env
    ELSE parseLines(parseLine(env, Head(lines)), Tail(lines))

\* parseEnvString, lines 15-57.
parseEnvString(envString) == parseLines(<<>>, split(envString, "\n"))

\* loadEnvFile, lines 67-79, on what is at the path.
loadEnvFile(file) == IF ~file.exists THEN <<>> ELSE parseEnvString(file.text)

\* Line 95.
override(testing) == IF testing THEN testingEnvFile ELSE localEnvFile

overridden_defaultWins(env, overrideEnv) == spread(overrideEnv, env)

\* { ...env, ...overrideEnv }, line 103.
overridden(env, overrideEnv) == spread(env, overrideEnv)

\* loadEnv not called.
NoEnv ==
    [st |-> "idle", testing |-> FALSE, reads |-> <<>>, env |-> <<>>,
     overrideEnv |-> <<>>, result |-> <<>>]

\* ------------------------------------------------------------------ serve
\* Nothing printed by a watch cycle yet.
Quiet == [rebuilt |-> 0, buildErrors |-> 0, assetsCopied |-> 0, unhandled |-> 0]

\* No event of a first scan waiting.
NoAdds == [asset |-> 0, source |-> 0]

\* No request received yet.
NoHttp == [received |-> <<>>, reading |-> <<>>, responses |-> <<>>]

Alive == exitCode = "running"

Idle_afterCycles ==
    exitCode = "running" /\ nextTickQueue = <<>> /\ rebuildCycles = 0
        /\ copyCycles = EmptyBag

\* No callback queued by process.nextTick is waiting: the event loop may
\* deliver the next event.  Awaited operations (fs.readFile, cp, ctx.rebuild)
\* do not hold the event loop.
Idle == Alive /\ nextTickQueue = <<>>

\* What the environment has sent so far: reload connections, static
\* requests, change events, signals.
Inputs ==
    Cardinality({c \in Conn : conn[c].st # "none"}) + served.reading + served.done
        + events + signals

\* Sockets the server still holds: open reload connections and static
\* requests whose fs.readFile has not called back.
Connections == Cardinality({c \in Conn : conn[c].st = "open"}) + served.reading

Init ==
    /\ shouldWatch \in BOOLEAN
    /\ nPairs \in 0..MaxPairs
    /\ pc = "copy"
    /\ copied = 0
    /\ server = "none"
    /\ closeCallbacks = 0
    /\ nextTickQueue = <<>>
    /\ assetWatcher = "null"
    /\ sourceWatcher = "null"
    /\ copyCycles = EmptyBag
    /\ rebuildCycles = 0
    /\ events = 0
    /\ signals = 0
    /\ served = [reading |-> 0, done |-> 0]
    /\ clients = <<>>
    /\ conn = [c \in Conn |-> NoConn]
    /\ errors = 0
    /\ broadcasts = 0
    /\ calls = 0
    /\ failed = "none"
    /\ log = <<>>
    /\ exitCode = "running"
    /\ logged = Quiet
    /\ initialAdds = NoAdds
    /\ http = NoHttp
    /\ cli = NoCli
    /\ dotenv = NoEnv

\* copyAllAssets called at line 78: one cp of the loop resolves.
CopyPair ==
    /\ Idle /\ pc = "copy" /\ copied < nPairs
    /\ copied' = copied + 1
    /\ log' = Append(log, "cp")
    /\ UNCHANGED <<failed, shouldWatch, nPairs, pc, server, closeCallbacks,
                   nextTickQueue, assetWatcher, sourceWatcher, copyCycles,
                   rebuildCycles, events, signals, served, exitCode, calls,
                   logged, initialAdds, http, cli, dotenv>>
    /\ UNCHANGED hubVars

\* One cp of the initial copy rejects: copyAllAssets rejects and so does the
\* await at line 78.
CopyPairFails ==
    /\ Idle /\ pc = "copy" /\ copied < nPairs
    /\ pc' = "rejected"
    /\ failed' = "copy"
    /\ UNCHANGED <<shouldWatch, nPairs, copied, server, closeCallbacks,
                   nextTickQueue, assetWatcher, sourceWatcher, copyCycles,
                   rebuildCycles, events, signals, served, exitCode, calls,
                   logged, initialAdds, http, log, cli, dotenv>>
    /\ UNCHANGED hubVars

\* The loop of copyAllAssets is over: the await at line 78 resumes and serve
\* calls ctx.rebuild() (line 81).
InitialRebuild ==
    /\ Idle /\ pc = "copy" /\ copied = nPairs
    /\ pc' = "rebuild"
    /\ log' = Append(log, "rebuild")
    /\ UNCHANGED <<failed, shouldWatch, nPairs, copied, server, closeCallbacks,
                   nextTickQueue, assetWatcher, sourceWatcher, copyCycles,
                   rebuildCycles, events, signals, served, exitCode, calls,
                   logged, initialAdds, http, cli, dotenv>>
    /\ UNCHANGED hubVars

\* The initial ctx.rebuild() rejects: so does the await at line 81.
InitialRebuildFails ==
    /\ Idle /\ pc = "rebuild"
    /\ pc' = "rejected"
    /\ failed' = "rebuild"
    /\ UNCHANGED <<shouldWatch, nPairs, copied, server, closeCallbacks,
                   nextTickQueue, assetWatcher, sourceWatcher, copyCycles,
                   rebuildCycles, events, signals, served, exitCode, calls,
                   logged, initialAdds, http, log, cli, dotenv>>
    /\ UNCHANGED hubVars

\* chokidar: the 'add' events the first scan of n existing files emits; none
\* with ignoreInitial.
firstScan(n, ignoreInitial) == IF ignoreInitial THEN 0 ELSE n

chokidarWatch_scanInitial(n) == firstScan(n, FALSE)

\* watch(paths, { ignoreInitial: true }) (lines 132-136 and 155-157) over n
\* existing files: the events of the first scan that will be delivered.
chokidarWatch(n) == firstScan(n, TRUE)

createWatcher_always(watch) == "watching"

\* if (shouldWatch) at line 128: the watchers are created in watch mode only.
createWatcher(watch) == IF watch THEN "watching" ELSE "null"

setup_watchFirst(watch) ==
    (IF watch THEN <<"watchAssets", "watchSource">> ELSE <<>>)
        \o <<"rebuilt", "listen">>

\* The steps of lines 83-176, run in one go once the initial rebuild is done.
setup(watch) ==
    <<"rebuilt", "listen">>
        \o (IF watch THEN <<"watchAssets", "watchSource">> ELSE <<>>)

\* The initial ctx.rebuild() resolved: serve runs lines 83-176 without
\* yielding.  server.listen(port) either throws at once (a port that is no
\* integer of 0..65535), or takes the port and queues 'listening', or fails to
\* bind (port in use) and queues 'error'; the two events go through
\* process.nextTick, so line 128 and what follows run before them.
Setup(bind) ==
    /\ Idle /\ pc = "rebuild"
    /\ failed' = IF bind = "ok" THEN failed ELSE "bind"
    /\ IF bind = "badport"
       THEN /\ pc' = "rejected"
            /\ log' = log \o <<"rebuilt", "listen">>
            /\ UNCHANGED <<server, nextTickQueue, assetWatcher, sourceWatcher,
                           initialAdds>>
       ELSE /\ pc' = "pending"
            /\ log' = log \o setup(shouldWatch)
            /\ server' = IF bind = "ok" THEN "bound" ELSE "failed"
            /\ nextTickQueue' =
                   Append(nextTickQueue, IF bind = "ok" THEN "listening" ELSE "error")
            /\ assetWatcher' = createWatcher(shouldWatch)
            /\ sourceWatcher' = createWatcher(shouldWatch)
            /\ initialAdds' = IF shouldWatch
                              THEN [asset |-> chokidarWatch(nPairs),
                                    source |-> chokidarWatch(SrcFiles)]
                              ELSE initialAdds
    /\ UNCHANGED <<shouldWatch, nPairs, copied, closeCallbacks, copyCycles,
                   rebuildCycles, events, signals, served, exitCode, calls,
                   logged, http, cli, dotenv>>
    /\ UNCHANGED hubVars

\* 'listening' is emitted: the callback of line 122 logs the address.
EmitListening ==
    /\ Alive /\ nextTickQueue # <<>> /\ Head(nextTickQueue) = "listening"
    /\ nextTickQueue' = Tail(nextTickQueue)
    /\ server' = "listening"
    /\ UNCHANGED <<failed, shouldWatch, nPairs, pc, copied, closeCallbacks,
                   assetWatcher, sourceWatcher, copyCycles, rebuildCycles,
                   events, signals, served, exitCode, calls, logged,
                   initialAdds, http, log, cli, dotenv>>
    /\ UNCHANGED hubVars

\* 'error' is emitted on the server, which has no 'error' listener: the
\* event is thrown as an uncaught exception.
EmitError ==
    /\ Alive /\ nextTickQueue # <<>> /\ Head(nextTickQueue) = "error"
    /\ nextTickQueue' = Tail(nextTickQueue)
    /\ exitCode' = "crash"
    /\ UNCHANGED <<failed, shouldWatch, nPairs, pc, copied, server, closeCallbacks,
                   assetWatcher, sourceWatcher, copyCycles, rebuildCycles,
                   events, signals, served, calls, logged, initialAdds, http,
                   log, cli, dotenv>>
    /\ UNCHANGED hubVars


\* ---------------------------------------------------------------- Serving
\* Connections are numbered in the order their requests arrive.
Fresh(c) == conn[c].st = "none" /\ \A d \in 1..(c - 1) : conn[d].st # "none"

\* ----------------------------------------------------- the request listener
\* The files under the served root, by their path below it; a content is a
\* sequence of pieces, a piece being a run of bytes.  "0xFF" is a byte that is
\* no UTF-8, "</body>" the text of the closing tag.
Files ==
    [f \in {"/index.html", "/sub/index.html", "/myindex.html", "/app.js", "/a b.txt"} |->
        CASE f = "/index.html" -> <<"<body>", "hello", "</body>">>
          [] f = "/sub/index.html" -> <<"<p>", "hello">>
          [] f = "/myindex.html" -> <<"0xFF", "</body>">>
          [] f = "/app.js" -> <<"0xFF", "</body>">>
          [] f = "/a b.txt" -> <<"text">>]

\* The request urls the browsers send.
Urls ==
    {"/", "/index.html", "/sub/index.html", "/myindex.html", "/app.js",
     "/a%20b.txt", "/missing.txt", "/__reload", "/%E0%A4%A"}

\* decodeURIComponent (line 94): a percent escape is replaced by the
\* character it encodes; an escape that is cut short or encodes no UTF-8
\* makes it throw URIError.
decodeURIComponent(url) ==
    CASE url = "/a%20b.txt" -> [ok |-> TRUE, path |-> "/a b.txt"]
      [] url = "/%E0%A4%A" -> [ok |-> FALSE, path |-> ""]
      [] OTHER -> [ok |-> TRUE, path |-> url]

\* Line 87: is the request for the Hub?
isReload_anyMode(watch, url) == url = "/__reload"

isReload(watch, url) == watch /\ url = "/__reload"

\* Lines 91-95: the path of the file below the root, or the exception of
\* decodeURIComponent.
resolve(url) ==
    IF url = "/" THEN [ok |-> TRUE, path |-> "/index.html"] ELSE decodeURIComponent(url)

\* String.prototype.endsWith("index.html") on the paths of the model.
endsWithIndexHtml(filePath) ==
    filePath \in {"/index.html", "/sub/index.html", "/myindex.html"}

injects_anyMode(watch, filePath) == endsWithIndexHtml(filePath)

\* Line 107: is the reload script put into the response?
injects(watch, filePath) == watch /\ endsWithIndexHtml(filePath)

\* Buffer.prototype.toString(): bytes that are no UTF-8 become U+FFFD.
toString(data) ==
    [i \in 1..Len(data) |-> IF data[i] = "0xFF" THEN "U+FFFD" ELSE data[i]]

\* The script block of lines 109-114.
script == "<script>new EventSource('/__reload')</script>"

\* String.prototype.replace("</body>", script + "</body>") (line 115): the
\* first "</body>" of the text gets the script in front of it; a text
\* without "</body>" stays as it is.
replace(text) ==
    LET idx == indexOf(text, "</body>")
    IN  IF idx = 0
        THEN text
        ELSE SubSeq(text, 1, idx - 1) \o <<script>> \o SubSeq(text, idx, Len(text))

\* The callback of fs.readFile (lines 97-119) for the request of url that
\* resolved to filePath.
readFileCallback(watch, url, filePath) ==
    IF filePath \notin DOMAIN Files
    THEN [url |-> url, status |-> 404, body |-> <<"Not found">>]
    ELSE [url |-> url, status |-> 200,
          body |-> IF injects(watch, filePath)
                   THEN replace(toString(Files[filePath]))
                   ELSE Files[filePath]]

\* GET /__reload on a fresh connection (lines 86-89): with shouldWatch the
\* request goes to SSEManager.handle; without, it is read as a file.
ReloadRequest(c) ==
    /\ Idle /\ server = "listening" /\ Fresh(c)
    /\ Inputs < MaxInputs
    /\ IF shouldWatch
       THEN SetHub(handle(Hub, c)) /\ UNCHANGED served
       ELSE /\ served.reading + served.done < MaxRequests
            /\ served' = [served EXCEPT !.reading = @ + 1]
            /\ UNCHANGED hubVars
    /\ UNCHANGED <<failed, shouldWatch, nPairs, pc, copied, server, closeCallbacks,
                   nextTickQueue, assetWatcher, sourceWatcher, copyCycles,
                   rebuildCycles, events, signals, exitCode, calls, logged,
                   initialAdds, http, log, cli, dotenv>>

\* GET of another url (lines 91-97): fs.readFile is started, unless
\* decodeURIComponent throws: the exception leaves the listener of 'request'
\* and nobody catches it.
StaticRequest(url) ==
    /\ Idle /\ server = "listening"
    /\ served.reading + served.done < MaxRequests
    /\ Inputs < MaxInputs
    /\ IF resolve(url).ok
       THEN served' = [served EXCEPT !.reading = @ + 1] /\ UNCHANGED exitCode
       ELSE exitCode' = "crash" /\ UNCHANGED served
    /\ UNCHANGED <<failed, shouldWatch, nPairs, pc, copied, server, closeCallbacks,
                   nextTickQueue, assetWatcher, sourceWatcher, copyCycles,
                   rebuildCycles, events, signals, calls, logged,
                   initialAdds, http, log, cli, dotenv>>
    /\ UNCHANGED hubVars

\* net.Server: a socket is gone; a closing server with no socket left queues
\* its 'close' event.
drained(srv, n) == IF srv = "closing" /\ n = 0 THEN <<"close">> ELSE <<>>

\* The callback of fs.readFile (lines 97-119) answers 404 or 200 and the
\* response ends; the server drops the connection of a finished response by
\* itself (a closing server at once, otherwise at its keep-alive timeout).
ReadFileDone ==
    /\ Idle /\ served.reading > 0
    /\ served' = [reading |-> served.reading - 1, done |-> served.done + 1]
    /\ nextTickQueue' = nextTickQueue \o drained(server, Connections - 1)
    /\ UNCHANGED <<failed, shouldWatch, nPairs, pc, copied, server, closeCallbacks,
                   assetWatcher, sourceWatcher, copyCycles, rebuildCycles,
                   events, signals, exitCode, calls, logged, initialAdds,
                   http, log, cli, dotenv>>
    /\ UNCHANGED hubVars

\* The browser drops a reload connection: the socket is destroyed; the
\* request's close event follows in a later callback.
SocketClose(c) ==
    /\ Idle /\ conn[c].st = "open"
    /\ conn' = [conn EXCEPT ![c].st = "destroyed"]
    /\ nextTickQueue' = nextTickQueue \o drained(server, Connections - 1)
    /\ UNCHANGED <<failed, shouldWatch, nPairs, pc, copied, server, closeCallbacks,
                   assetWatcher, sourceWatcher, copyCycles, rebuildCycles,
                   events, signals, served, exitCode, calls, logged,
                   initialAdds, http, log, cli, dotenv>>
    /\ UNCHANGED <<clients, errors, broadcasts>>

\* The close event of a reload request: its socket is gone, or its response
\* has been ended.
CloseDue(c) ==
    \/ conn[c].st = "destroyed"
    \/ conn[c].st = "open" /\ conn[c].ends > 0

\* The close event of a reload request is delivered (lines 28-31).
ReqClose(c) ==
    /\ Idle /\ CloseDue(c)
    /\ SetHub(onClose(Hub, c))
    /\ UNCHANGED serveVars
    /\ UNCHANGED calls

\* copyAllAssets(copyPairs) as the asset listener calls it (line 139): the
\* loop of src/copyfiles.ts over all n pairs, whichever path changed; none
\* copied yet.
copyAllAssets_changedPair(n) == [todo |-> 1, done |-> 0]

copyAllAssets(n) == [todo |-> n, done |-> 0]

\* One await cp of the loop resolved.
cp(cycle) == [todo |-> cycle.todo - 1, done |-> cycle.done + 1]

One(cycle) == SetToBag({cycle})

\* The asset watcher reports a change of the from side of pair p (line 138),
\* or an 'add' of its first scan: the listener calls copyAllAssets.  chokidar
\* watches the from side of the pairs: without pairs, no event.
AssetEvent(p) ==
    /\ Idle /\ assetWatcher = "watching"
    /\ IF initialAdds.asset > 0
       THEN /\ initialAdds' = [initialAdds EXCEPT !.asset = @ - 1]
            /\ UNCHANGED events
       ELSE /\ events < MaxEvents /\ Inputs < MaxInputs
            /\ events' = events + 1
            /\ UNCHANGED initialAdds
    /\ copyCycles' = copyCycles (+) One(copyAllAssets(nPairs))
    /\ UNCHANGED <<failed, shouldWatch, nPairs, pc, copied, server, closeCallbacks,
                   nextTickQueue, assetWatcher, sourceWatcher, rebuildCycles,
                   signals, served, exitCode, calls, log, logged, http, cli, dotenv>>
    /\ UNCHANGED hubVars

\* One cp of an asset cycle resolved and the loop goes on with the next pair
\* (src/copyfiles.ts, lines 19-24).
AssetCopyStep ==
    /\ Idle
    /\ \E cycle \in BagToSet(copyCycles) :
           /\ cycle.todo > 1
           /\ copyCycles' = (copyCycles (-) One(cycle)) (+) One(cp(cycle))
    /\ UNCHANGED <<failed, shouldWatch, nPairs, pc, copied, server, closeCallbacks,
                   nextTickQueue, assetWatcher, sourceWatcher, rebuildCycles,
                   events, signals, served, exitCode, calls, log, logged,
                   initialAdds, http, cli, dotenv>>
    /\ UNCHANGED hubVars

\* The last cp of an asset cycle resolved: copyAllAssets resolves and the
\* listener goes on with lines 140-141 in the same turn.
AssetCycleDone ==
    /\ Idle
    /\ \E cycle \in BagToSet(copyCycles) :
           /\ cycle.todo <= 1
           /\ copyCycles' = copyCycles (-) One(cycle)
    /\ logged' = [logged EXCEPT !.assetsCopied = @ + 1]
    /\ SetHub(sendReload(Hub))
    /\ UNCHANGED <<failed, shouldWatch, nPairs, pc, copied, server, closeCallbacks,
                   nextTickQueue, assetWatcher, sourceWatcher, rebuildCycles,
                   events, signals, served, exitCode, calls, log, initialAdds,
                   http, cli, dotenv>>

assetListenerRejects_caught(l) == [l EXCEPT !.buildErrors = @ + 1]

\* The async listener of line 138 has no catch: when its await rejects, the
\* promise it returned rejects and nobody handles it.
assetListenerRejects(l) == [l EXCEPT !.unhandled = @ + 1]

\* A cp of an asset cycle rejected: copyAllAssets rejects at line 139.  Node
\* ends the process on an unhandled rejection (its default since v15) or only
\* warns (before, or with --unhandled-rejections=warn).
AssetCycleFails(fatal) ==
    /\ Idle
    /\ \E cycle \in BagToSet(copyCycles) :
           copyCycles' = copyCycles (-) One(cycle)
    /\ logged' = assetListenerRejects(logged)
    /\ exitCode' = IF fatal /\ logged'.unhandled > logged.unhandled
                   THEN "crash" ELSE exitCode
    /\ UNCHANGED <<failed, shouldWatch, nPairs, pc, copied, server, closeCallbacks,
                   nextTickQueue, assetWatcher, sourceWatcher, rebuildCycles,
                   events, signals, served, calls, log, initialAdds, http, cli, dotenv>>
    /\ UNCHANGED hubVars

rebuild_coalesced(n) == IF n > 0 THEN n ELSE n + 1

\* rebuild() is called (line 145) and awaits ctx.rebuild(), whatever is in
\* flight: one more call is awaited.
rebuild(n) == n + 1

\* The source watcher reports a change (line 159), or an 'add' of its first
\* scan: the listener is rebuild.
SourceEvent ==
    /\ Idle /\ sourceWatcher = "watching"
    /\ IF initialAdds.source > 0
       THEN /\ initialAdds' = [initialAdds EXCEPT !.source = @ - 1]
            /\ UNCHANGED events
       ELSE /\ events < MaxEvents /\ Inputs < MaxInputs
            /\ events' = events + 1
            /\ UNCHANGED initialAdds
    /\ rebuildCycles' = rebuild(rebuildCycles)
    /\ UNCHANGED <<failed, shouldWatch, nPairs, pc, copied, server, closeCallbacks,
                   nextTickQueue, assetWatcher, sourceWatcher, copyCycles,
                   signals, served, exitCode, calls, log, logged, http, cli, dotenv>>
    /\ UNCHANGED hubVars

\* The ctx.rebuild() of one source cycle resolved (lines 148-149).
RebuildCycleDone ==
    /\ Idle /\ rebuildCycles > 0
    /\ rebuildCycles' = rebuildCycles - 1
    /\ logged' = [logged EXCEPT !.rebuilt = @ + 1]
    /\ SetHub(sendReload(Hub))
    /\ UNCHANGED <<failed, shouldWatch, nPairs, pc, copied, server, closeCallbacks,
                   nextTickQueue, assetWatcher, sourceWatcher, copyCycles,
                   events, signals, served, exitCode, calls, log, initialAdds,
                   http, cli, dotenv>>

rebuildCatch_rethrow(l) == [l EXCEPT !.unhandled = @ + 1]

\* The catch of rebuild (lines 150-152): console.error("Build error:", err).
rebuildCatch(l) == [l EXCEPT !.buildErrors = @ + 1]

\* The ctx.rebuild() of one source cycle rejected: caught and logged (lines
\* 150-152).
RebuildCycleFails ==
    /\ Idle /\ rebuildCycles > 0
    /\ rebuildCycles' = rebuildCycles - 1
    /\ logged' = rebuildCatch(logged)
    /\ UNCHANGED <<failed, shouldWatch, nPairs, pc, copied, server, closeCallbacks,
                   nextTickQueue, assetWatcher, sourceWatcher, copyCycles,
                   events, signals, served, exitCode, calls, log, initialAdds,
                   http, cli, dotenv>>
    /\ UNCHANGED hubVars


\* --------------------------------------------------------------- shutdown
onServerClose_hubFirst(aw, sw) ==
    <<"closeAll">>
        \o (IF aw # "null" THEN <<"assetWatcher.close">> ELSE <<>>)
        \o (IF sw # "null" THEN <<"sourceWatcher.close">> ELSE <<>>)
        \o <<"resolve">>

\* The steps of the listener of the server's 'close' event (lines 170-175).
onServerClose(aw, sw) ==
    (IF aw # "null" THEN <<"assetWatcher.close">> ELSE <<>>)
        \o (IF sw # "null" THEN <<"sourceWatcher.close">> ELSE <<>>)
        \o <<"closeAll", "resolve">>

closeListeners_perSignal(n) == n

\* The listener of line 170 is added once, when serve() builds the promise it
\* returns (line 169), however many callbacks server.close has added since.
closeListeners(n) == 1

\* The listener runs once for every time it was added.
RECURSIVE repeat(_, _)
repeat(steps, k) == IF k <= 0 THEN <<>> ELSE steps \o repeat(steps, k - 1)

closeWithCallback_none(n) == n

\* server.close(() => process.exit(0)) (line 165): one more listener of
\* 'close' that ends the process.
closeWithCallback(n) == n + 1

\* SIGINT with the handler of lines 163-166 installed: server.close(cb) stops
\* the listener, adds cb as a listener of 'close' and, when the server holds
\* no socket, queues the 'close' event.
Sigint ==
    /\ Idle /\ pc = "pending"
    /\ signals < MaxSignals /\ Inputs < MaxInputs
    /\ signals' = signals + 1
    /\ server' = "closing"
    /\ closeCallbacks' = closeWithCallback(closeCallbacks)
    /\ log' = Append(log, "server.close")
    /\ nextTickQueue' = nextTickQueue \o drained("closing", Connections)
    /\ UNCHANGED <<failed, shouldWatch, nPairs, pc, copied, assetWatcher,
                   sourceWatcher, copyCycles, rebuildCycles, events, served,
                   exitCode, calls, logged, initialAdds, http, cli, dotenv>>
    /\ UNCHANGED hubVars

\* SIGINT before line 163 has run: no handler, the signal ends the process.
SigintDefault ==
    /\ Idle /\ pc \in {"copy", "rebuild"}
    /\ signals < MaxSignals /\ Inputs < MaxInputs
    /\ signals' = signals + 1
    /\ exitCode' = "killed"
    /\ UNCHANGED <<failed, shouldWatch, nPairs, pc, copied, server, closeCallbacks,
                   nextTickQueue, assetWatcher, sourceWatcher, copyCycles,
                   rebuildCycles, events, served, calls, logged, initialAdds,
                   http, log, cli, dotenv>>
    /\ UNCHANGED hubVars

\* 'close' is emitted on the server: its listeners run in the order they
\* were added, the one of line 170 first, then every callback given to
\* server.close, which is process.exit(0).
EmitClose ==
    /\ Alive /\ nextTickQueue # <<>> /\ Head(nextTickQueue) = "close"
    /\ nextTickQueue' = Tail(nextTickQueue)
    /\ server' = "closed"
    /\ assetWatcher' = IF assetWatcher = "null" THEN "null" ELSE "closed"
    /\ sourceWatcher' = IF sourceWatcher = "null" THEN "null" ELSE "closed"
    /\ SetHub(closeAll(Hub))
    /\ pc' = "resolved"
    /\ log' = log \o repeat(onServerClose(assetWatcher, sourceWatcher),
                              closeListeners(closeCallbacks))
                  \o (IF closeCallbacks > 0 THEN <<"exit">> ELSE <<>>)
    /\ exitCode' = IF closeCallbacks > 0 THEN "exit0" ELSE exitCode
    /\ UNCHANGED <<failed, shouldWatch, nPairs, copied, closeCallbacks, copyCycles,
                   rebuildCycles, events, signals, served, calls, logged,
                   initialAdds, http, cli, dotenv>>

\* The lifecycle state of section 4.5, read off the program's state.
lifecycle ==
    IF pc = "resolved" THEN "Stopped"
    ELSE IF server = "closing" THEN "ShuttingDown"
    ELSE IF server = "listening" THEN "Serving"
    ELSE "Initializing"

Next ==
    \/ CopyPair
    \/ CopyPairFails
    \/ InitialRebuild
    \/ InitialRebuildFails
    \/ \E bind \in {"ok", "badport", "inuse"} : Setup(bind)
    \/ EmitListening
    \/ EmitError
    \/ \E c \in Conn : ReloadRequest(c)
    \/ \E url \in Urls \ {"/__reload"} : StaticRequest(url)
    \/ ReadFileDone
    \/ \E c \in Conn : SocketClose(c)
    \/ \E c \in Conn : ReqClose(c)
    \/ \E p \in 1..nPairs : AssetEvent(p)
    \/ AssetCopyStep
    \/ AssetCycleDone
    \/ \E fatal \in BOOLEAN : AssetCycleFails(fatal)
    \/ SourceEvent
    \/ RebuildCycleDone
    \/ RebuildCycleFails
    \/ Sigint
    \/ SigintDefault
    \/ EmitClose

Spec == Init /\ [][Next]_vars

\* What the program and its runtime do by themselves once they can: queued
\* callbacks run, a started copy, rebuild or file read ends, a destroyed
\* socket's close event is delivered.  Signals, requests, file changes and a
\* browser dropping its connection are left to the environment.
Fairness ==
    /\ WF_vars(CopyPair \/ CopyPairFails)
    /\ WF_vars(InitialRebuild)
    /\ WF_vars(InitialRebuildFails \/ \E bind \in {"ok", "badport", "inuse"} : Setup(bind))
    /\ WF_vars(EmitListening)
    /\ WF_vars(EmitError)
    /\ WF_vars(EmitClose)
    /\ WF_vars(ReadFileDone)
    /\ WF_vars(\E c \in Conn : ReqClose(c))
    /\ WF_vars(AssetCopyStep)
    /\ WF_vars(AssetCycleDone \/ \E fatal \in BOOLEAN : AssetCycleFails(fatal))
    /\ WF_vars(RebuildCycleDone \/ RebuildCycleFails)

FairSpec == Spec /\ Fairness

\* ------------------------------------------------------------ Hub harness
\* The SSEManager alone: its methods and the events of its connections, in
\* any order a caller and the network may produce.
InitHub ==
    /\ shouldWatch = TRUE
    /\ nPairs = 0
    /\ pc = "harness"
    /\ copied = 0
    /\ server = "none"
    /\ closeCallbacks = 0
    /\ nextTickQueue = <<>>
    /\ assetWatcher = "null"
    /\ sourceWatcher = "null"
    /\ copyCycles = EmptyBag
    /\ rebuildCycles = 0
    /\ events = 0
    /\ signals = 0
    /\ served = [reading |-> 0, done |-> 0]
    /\ clients = <<>>
    /\ conn = [c \in Conn |-> NoConn]
    /\ errors = 0
    /\ broadcasts = 0
    /\ calls = 0
    /\ failed = "none"
    /\ log = <<>>
    /\ exitCode = "running"
    /\ logged = Quiet
    /\ initialAdds = NoAdds
    /\ http = NoHttp
    /\ cli = NoCli
    /\ dotenv = NoEnv

HubHandle(c) ==
    /\ Fresh(c)
    /\ SetHub(handle(Hub, c))
    /\ UNCHANGED serveVars
    /\ UNCHANGED calls

HubSocketClose(c) ==
    /\ conn[c].st = "open"
    /\ conn' = [conn EXCEPT ![c].st = "destroyed"]
    /\ UNCHANGED serveVars
    /\ UNCHANGED <<clients, errors, broadcasts, calls>>

HubReqClose(c) ==
    /\ CloseDue(c)
    /\ SetHub(onClose(Hub, c))
    /\ UNCHANGED serveVars
    /\ UNCHANGED calls

HubSendReload ==
    /\ calls < MaxCalls
    /\ calls' = calls + 1
    /\ SetHub(sendReload(Hub))
    /\ UNCHANGED serveVars

HubCloseAll ==
    /\ calls < MaxCalls
    /\ calls' = calls + 1
    /\ SetHub(closeAll(Hub))
    /\ UNCHANGED serveVars

NextHub ==
    \/ \E c \in Conn : HubHandle(c)
    \/ \E c \in Conn : HubSocketClose(c)
    \/ \E c \in Conn : HubReqClose(c)
    \/ HubSendReload
    \/ HubCloseAll

SpecHub == InitHub /\ [][NextHub]_vars

\* ------------------------------------------------- request listener alone
\* The session right after a startup without copy pairs, in Serving: the
\* requests of the browsers and the callbacks of fs.readFile, with every url,
\* path and body spelled out.
InitStatic ==
    /\ shouldWatch \in BOOLEAN
    /\ nPairs = 0
    /\ pc = "pending"
    /\ copied = 0
    /\ server = "listening"
    /\ closeCallbacks = 0
    /\ nextTickQueue = <<>>
    /\ assetWatcher = (IF shouldWatch THEN "watching" ELSE "null")
    /\ sourceWatcher = (IF shouldWatch THEN "watching" ELSE "null")
    /\ copyCycles = EmptyBag
    /\ rebuildCycles = 0
    /\ events = 0
    /\ signals = 0
    /\ served = [reading |-> 0, done |-> 0]
    /\ clients = <<>>
    /\ conn = [c \in Conn |-> NoConn]
    /\ errors = 0
    /\ broadcasts = 0
    /\ calls = 0
    /\ failed = "none"
    /\ log = <<"rebuild">> \o setup(shouldWatch)
    /\ exitCode = "running"
    /\ logged = Quiet
    /\ initialAdds = NoAdds
    /\ http = NoHttp
    /\ cli = NoCli
    /\ dotenv = NoEnv

\* A request arrives (lines 86-97): it goes to the Hub, or decodeURIComponent
\* throws and the exception is caught by nobody, or fs.readFile is started.
Get(url) ==
    /\ Idle /\ server = "listening"
    /\ Len(http.received) < MaxGets
    /\ IF isReload(shouldWatch, url)
       THEN /\ \E c \in Conn : Fresh(c) /\ SetHub(handle(Hub, c))
            /\ http' = [http EXCEPT !.received = Append(@, url)]
            /\ UNCHANGED exitCode
       ELSE IF ~resolve(url).ok
       THEN /\ exitCode' = "crash"
            /\ http' = [http EXCEPT !.received = Append(@, url)]
            /\ UNCHANGED hubVars
       ELSE /\ http' = [http EXCEPT
                           !.received = Append(@, url),
                           !.reading = Append(@, [url |-> url,
                                                  filePath |-> resolve(url).path])]
            /\ UNCHANGED <<exitCode, clients, conn, errors, broadcasts>>
    /\ UNCHANGED <<failed, shouldWatch, nPairs, pc, copied, server, closeCallbacks,
                   nextTickQueue, assetWatcher, sourceWatcher, copyCycles,
                   rebuildCycles, events, signals, served, calls, logged,
                   initialAdds, log, cli, dotenv>>

\* fs.readFile calls back for the i-th pending read (lines 97-119): the
\* response is sent.
ReadFile(i) ==
    /\ Idle /\ i \in 1..Len(http.reading)
    /\ http' = [http EXCEPT
                   !.reading = splice(@, i),
                   !.responses = Append(@, readFileCallback(shouldWatch,
                                                            http.reading[i].url,
                                                            http.reading[i].filePath))]
    /\ UNCHANGED <<failed, shouldWatch, nPairs, pc, copied, server, closeCallbacks,
                   nextTickQueue, assetWatcher, sourceWatcher, copyCycles,
                   rebuildCycles, events, signals, served, exitCode, calls,
                   logged, initialAdds, log, cli, dotenv>>
    /\ UNCHANGED hubVars

NextStatic ==
    \/ \E url \in Urls : Get(url)
    \/ \E i \in 1..MaxGets : ReadFile(i)

SpecStatic == InitStatic /\ [][NextStatic]_vars

\* -------------------------------------------------------- parseArgs alone
\* serve() is not running while the command line is parsed or the
\* environment files are read.
NotServing ==
    /\ shouldWatch = TRUE
    /\ nPairs = 0
    /\ pc = "harness"
    /\ copied = 0
    /\ server = "none"
    /\ closeCallbacks = 0
    /\ nextTickQueue = <<>>
    /\ assetWatcher = "null"
    /\ sourceWatcher = "null"
    /\ copyCycles = EmptyBag
    /\ rebuildCycles = 0
    /\ events = 0
    /\ signals = 0
    /\ served = [reading |-> 0, done |-> 0]
    /\ clients = <<>>
    /\ conn = [c \in Conn |-> NoConn]
    /\ errors = 0
    /\ broadcasts = 0
    /\ calls = 0
    /\ failed = "none"
    /\ log = <<>>
    /\ exitCode = "running"
    /\ logged = Quiet
    /\ initialAdds = NoAdds
    /\ http = NoHttp

\* parseArgs(argv) is entered with any number of words up to MaxArgs after
\* the script name (lines 58-64).
InitArgs ==
    /\ NotServing
    /\ \E n \in 0..MaxArgs : cli = [NoCli EXCEPT !.st = "parsing", !.left = n]
    /\ dotenv = NoEnv

\* One turn of the loop, on any word and any word after it.
Iterate ==
    /\ cli.st = "parsing" /\ cli.left > 0
    /\ \E arg \in Tokens, next \in Tokens : cli' = iteration(cli, arg, next)
    /\ UNCHANGED <<serveVars0, hubVars, calls, dotenv>>

\* The loop is over: parseArgs returns (lines 181-185).
Return ==
    /\ cli.st = "parsing" /\ cli.left = 0
    /\ cli' = [cli EXCEPT !.st = "returned", !.result = <<returned(cli)>>]
    /\ UNCHANGED <<serveVars0, hubVars, calls, dotenv>>

NextArgs == Iterate \/ Return

SpecArgs == InitArgs /\ [][NextArgs]_vars

\* ---------------------------------------------------------- loadEnv alone
\* loadEnv(testing) is entered (line 94).
InitEnv ==
    /\ NotServing
    /\ cli = NoCli
    /\ \E t \in BOOLEAN : dotenv = [NoEnv EXCEPT !.st = "default", !.testing = t]

\* Line 98: the default file is looked for, read and parsed.
LoadDefault ==
    /\ dotenv.st = "default"
    /\ \E file \in FileStates :
         dotenv' = [dotenv EXCEPT
                      !.st = "override",
                      !.reads = Append(@, [path |-> defaultEnvFile, file |-> file]),
                      !.env = loadEnvFile(file)]
    /\ UNCHANGED <<serveVars0, hubVars, calls, cli>>

\* Lines 95 and 101: the override file is looked for, read and parsed.
LoadOverride ==
    /\ dotenv.st = "override"
    /\ \E file \in FileStates :
         dotenv' = [dotenv EXCEPT
                      !.st = "merge",
                      !.reads = Append(@, [path |-> override(dotenv.testing),
                                           file |-> file]),
                      !.overrideEnv = loadEnvFile(file)]
    /\ UNCHANGED <<serveVars0, hubVars, calls, cli>>

\* Line 103.
ReturnEnv ==
    /\ dotenv.st = "merge"
    /\ dotenv' = [dotenv EXCEPT
                    !.st = "returned",
                    !.result = overridden(dotenv.env, dotenv.overrideEnv)]
    /\ UNCHANGED <<serveVars0, hubVars, calls, cli>>

NextEnv == LoadDefault \/ LoadOverride \/ ReturnEnv

SpecEnv == InitEnv /\ [][NextEnv]_vars


\* ================================================================= claims
Range(s) == {s[i] : i \in 1..Len(s)}

\* How often e is in the log, and where it is first (0 when absent).
Count(e) == Cardinality({i \in 1..Len(log) : log[i] = e})
Pos(e) == indexOf(log, e)

\* b is in the log only after a.
Before(a, b) == Pos(b) > 0 => (Pos(a) > 0 /\ Pos(a) < Pos(b))

\* ------------------------------------------------------------------- C1
\* C1: once SIGINT is handled while Serving, the session reaches Stopped and
\* every reload connection open at that time is ended by the server, whatever
\* the number of reload clients and without any of them disconnecting.  The
\* process dying of an unhandled copy failure is not held against the claim.
C1_SigintLeadsToStopped ==
    /\ (lifecycle = "ShuttingDown") ~> (lifecycle = "Stopped" \/ exitCode = "crash")
    /\ \A c \in Conn :
           (lifecycle = "ShuttingDown" /\ conn[c].st = "open")
               ~> (conn[c].ends > 0 \/ conn[c].st # "open" \/ exitCode = "crash")

\* ------------------------------------------------------------------- C2
ShutdownRank(e) ==
    CASE e = "server.close" -> 1
      [] e \in {"assetWatcher.close", "sourceWatcher.close"} -> 2
      [] e = "closeAll" -> 3
      [] e = "resolve" -> 4
      [] e = "exit" -> 5
      [] OTHER -> 0

LifecycleRank(l) ==
    CASE l = "Initializing" -> 1
      [] l = "Serving" -> 2
      [] l = "ShuttingDown" -> 3
      [] l = "Stopped" -> 4

\* C3: the lifecycle only moves forward along Initializing, Serving,
\* ShuttingDown, Stopped, and once Stopped is reached nothing happens any
\* more: no request is served, no watcher fires, no broadcast is sent.
C3_LifecycleForward ==
    [][/\ LifecycleRank(lifecycle') >= LifecycleRank(lifecycle)
       /\ lifecycle = "Stopped" => UNCHANGED vars]_vars

\* Stopped after two signals, with a rebuild or a copy still in flight.
C3_Witness ==
    /\ lifecycle = "Stopped"
    /\ BagCardinality(copyCycles) + rebuildCycles > 0
    /\ signals = 2

\* ------------------------------------------------------------------- C4
\* C4: when the initial copy, the initial rebuild or the bind of the listener
\* fails, the promise of serve() rejects and the session never reaches
\* Serving: no watcher is started and no request is served.
C4_StartupFailureRejects ==
    failed # "none"
        => /\ pc = "rejected"
           /\ assetWatcher = "null" /\ sourceWatcher = "null"
           /\ lifecycle = "Initializing"
           /\ served.reading + served.done = 0

\* ------------------------------------------------------------------- C5
\* C5: during Initializing every pair is copied before the initial rebuild
\* begins, the rebuild is over before the listener is started, the watchers
\* are created only after the listener has been started, and each of these
\* steps runs once.
C5_StartupOrder ==
    /\ Count("cp") = copied /\ copied <= nPairs
    /\ Pos("rebuild") > 0
           => /\ copied = nPairs
              /\ \A i \in 1..Len(log) : log[i] = "cp" => i < Pos("rebuild")
    /\ Before("rebuild", "rebuilt")
    /\ Before("rebuilt", "listen")
    /\ Before("listen", "watchAssets")
    /\ Before("listen", "watchSource")
    /\ \A e \in {"rebuild", "rebuilt", "listen", "watchAssets", "watchSource"} :
           Count(e) <= 1
    /\ server # "none" => Pos("listen") > 0
    /\ (assetWatcher # "null" \/ sourceWatcher # "null")
           => /\ shouldWatch
              /\ Pos("watchAssets") > 0 /\ Pos("watchSource") > 0

C5_Witness ==
    /\ lifecycle = "Serving" /\ shouldWatch /\ nPairs >= 2
    /\ assetWatcher = "watching" /\ sourceWatcher = "watching"


\* ------------------------------------------------------------------- C6
\* A client that is registered and has not closed: in the list's terms, a
\* connection that was accepted, whose socket is there and whose response
\* was not ended.
Registered(c) == conn[c].st = "open" /\ conn[c].ends = 0

\* The step is one call of sendReload.
BroadcastStep == broadcasts' = broadcasts + 1

\* C6: one call of sendReload writes exactly one "data: reload" message to
\* each client that is registered and has not closed, however many there
\* are, and writes nothing to a connection that never registered.
C6_BroadcastOnce ==
    [][BroadcastStep
          => \A c \in Conn :
                 /\ Registered(c) => conn'[c].writes = conn[c].writes + 1
                 /\ conn[c].st = "none" => conn'[c].writes = 0]_vars

\* Every client registered, none closed, one broadcast made: one message each.
C6_Witness ==
    /\ broadcasts = 1
    /\ Len(clients) = MaxClients
    /\ \A c \in Conn : Registered(c) /\ conn[c].writes = 1

\* ------------------------------------------------------------------- C7
\* C7: once the close event of a client has been handled, no later broadcast
\* writes to that client, and no write of a broadcast raises an error, in
\* every interleaving of requests, close events and rebuild or copy cycles.
C7_ClosedClientSkipped ==
    [][/\ \A c \in Conn :
              conn[c].st = "closed" => conn'[c].writes = conn[c].writes
       /\ errors' = 0]_vars

\* A client that got one broadcast, closed, and missed a later one that
\* another client got.
C7_Witness ==
    \E c, d \in Conn :
        /\ conn[c].st = "closed" /\ conn[c].writes = 1
        /\ broadcasts > conn[c].closedAt
        /\ conn[d].st = "open" /\ conn[d].writes = 2

\* ------------------------------------------------------------------- C8
\* C8: in every state the client list holds each connection at most once,
\* and only connections whose close event has not been handled yet.
C8_ClientListInvariant ==
    /\ \A i, j \in 1..Len(clients) : clients[i] = clients[j] => i = j
    /\ \A i \in 1..Len(clients) : conn[clients[i]].st \in {"open", "destroyed"}

\* One client ended by closeAll and closed since, another registered after
\* that and in the list.
C8_Witness ==
    \E c, d \in Conn :
        /\ conn[c].st = "closed" /\ conn[c].ends > 0
        /\ conn[d].st = "open" /\ clients = <<d>>
        /\ broadcasts > 0

\* ------------------------------------------------------------------- C9
\* The step is one call of closeAll by the harness.
CloseAllStep == calls' = calls + 1 /\ broadcasts' = broadcasts

\* C9: closeAll ends every connection of the list, once, and leaves the list
\* empty; on an empty Hub it ends nothing; a second closeAll right after the
\* first changes nothing; no call raises an error.
C9_CloseAllIdempotent ==
    [][CloseAllStep
          => /\ clients' = <<>>
             /\ \A c \in Conn :
                    conn'[c].ends =
                        conn[c].ends + (IF c \in Range(clients) THEN 1 ELSE 0)
             /\ clients = <<>> => conn' = conn
             /\ closeAll(Hub') = Hub'
             /\ errors' = 0]_vars

\* closeAll called twice and nothing else: every connection was ended once.
C9_Witness ==
    /\ calls = 2 /\ broadcasts = 0
    /\ clients = <<>>
    /\ \A c \in Conn : conn[c].ends = 1

\* ------------------------------------------------------------------ C10
\* C10: a broadcast made after closeAll writes to none of the connections
\* closeAll has ended, and to none at all while the list is still empty; the
\* close event of a connection closeAll has removed leaves the list as it
\* is; neither raises an error.
C10_ClosedHubNoOp ==
    [][/\ BroadcastStep
          => /\ \A c \in Conn :
                    conn[c].ends > 0 => conn'[c].writes = conn[c].writes
             /\ clients = <<>> => conn' = conn
       /\ \A c \in Conn :
              (conn[c].ends > 0 /\ conn[c].st # "closed" /\ conn'[c].st = "closed")
                  => clients' = clients
       /\ errors' = 0]_vars

\* A connection ended by closeAll, a broadcast made after that, then the
\* connection's close event.
C10_Witness ==
    \E c \in Conn :
        /\ conn[c].ends > 0
        /\ broadcasts > conn[c].endedAt
        /\ conn[c].st = "closed"
        /\ conn[c].closedAt > conn[c].endedAt

\* ------------------------------------------------------------------ C11
\* A write of the broadcast failed: it went to a client of the list whose
\* socket was gone.
WriteFailed(c) == conn[c].st = "destroyed" /\ c \in Range(clients)

\* C11: when a write of a broadcast fails, the broadcast still writes the
\* message to every other registered client and nothing leaves sendReload:
\* no error is raised, the process lives on, the cycle that called it ends as
\* a success.  The client whose write failed stays in the list until its own
\* close event is handled (or the Hub is closed at shutdown).
C11_WriteFailureIsolated ==
    [][/\ (BroadcastStep /\ \E c \in Conn : WriteFailed(c))
          => /\ \A d \in Conn : Registered(d) => conn'[d].writes = conn[d].writes + 1
             /\ \A c \in Conn : WriteFailed(c) => conn'[c].dropped = conn[c].dropped + 1
             /\ clients' = clients
             /\ errors' = 0
             /\ exitCode' = exitCode
             /\ logged'.buildErrors = logged.buildErrors
             /\ logged'.unhandled = logged.unhandled
             /\ logged'.rebuilt + logged'.assetsCopied
                    = logged.rebuilt + logged.assetsCopied + 1
       /\ \A c \in Conn :
              (WriteFailed(c) /\ c \notin Range(clients'))
                  => (conn'[c].st = "closed" \/ pc' = "resolved")]_vars

\* One broadcast, made by a rebuild cycle: its write to the first client of
\* the list was dropped, the second client got the message, the first is
\* still in the list.
C11_Witness ==
    \E c, d \in Conn :
        /\ clients = <<c, d>>
        /\ WriteFailed(c) /\ conn[c].dropped = 1
        /\ Registered(d) /\ conn[d].writes = 1
        /\ broadcasts = 1 /\ logged.rebuilt = 1
        /\ Alive

\* ------------------------------------------------------------------ C12
\* The step ends a rebuild cycle without a broadcast: its ctx.rebuild failed.
RebuildFailedStep == rebuildCycles' = rebuildCycles - 1 /\ broadcasts' = broadcasts

\* The step ends a rebuild cycle with a broadcast.
RebuildDoneStep == rebuildCycles' = rebuildCycles - 1 /\ broadcasts' # broadcasts

\* After a failed rebuild the session is as able as before: in Serving the
\* listener listens and the source watcher watches.
StillServing ==
    (logged.buildErrors > 0 /\ lifecycle = "Serving" /\ Alive)
        => /\ server = "listening" /\ sourceWatcher = "watching"
           /\ (Idle /\ events < MaxEvents /\ Inputs < MaxInputs)
                  => ENABLED SourceEvent

\* C12: a failed rebuild of a source change sends no broadcast, is caught and
\* logged, and leaves the lifecycle and the process as they were; the next
\* source change starts a new rebuild, and a rebuild that succeeds sends one
\* broadcast.
C12_RebuildFailureCaught ==
    [][/\ RebuildFailedStep
          => /\ UNCHANGED hubVars
             /\ logged'.buildErrors = logged.buildErrors + 1
             /\ logged'.unhandled = logged.unhandled
             /\ exitCode' = exitCode
             /\ lifecycle' = lifecycle
             /\ UNCHANGED <<server, sourceWatcher, assetWatcher, pc>>
       /\ RebuildDoneStep
          => /\ broadcasts' = broadcasts + 1
             /\ logged'.rebuilt = logged.rebuilt + 1
             /\ logged'.buildErrors = logged.buildErrors
       /\ (logged.buildErrors > 0 /\ events' = events + 1
              /\ copyCycles' = copyCycles)
          => rebuildCycles' = rebuildCycles + 1
       /\ StillServing /\ StillServing']_vars

\* One rebuild failed and one succeeded, a request was answered, the session
\* is Serving and a client got the one broadcast.
C12_Witness ==
    /\ logged.buildErrors = 1 /\ logged.rebuilt = 1
    /\ broadcasts = 1 /\ events = 2 /\ rebuildCycles = 0
    /\ lifecycle = "Serving" /\ Alive
    /\ served.done = 1
    /\ \E c \in Conn : Registered(c) /\ conn[c].writes = 1

\* ------------------------------------------------------------------ C13
\* Every asset cycle in flight is a loop over all the pairs.
FullCycles ==
    \A cycle \in BagToSet(copyCycles) :
        cycle.todo >= 1 /\ cycle.todo + cycle.done = nPairs

\* C13: a change event of the asset watcher starts one cycle that copies all
\* the pairs; "Assets copied" and the one broadcast of the cycle come in the
\* step in which the last pair has been copied, never before; a broadcast is
\* sent by nothing but a cycle that ended well.
C13_AssetCycle ==
    [][/\ (events' = events + 1 /\ rebuildCycles' = rebuildCycles)
          => copyCycles' = copyCycles (+) One([todo |-> nPairs, done |-> 0])
       /\ logged'.assetsCopied # logged.assetsCopied
          => /\ logged'.assetsCopied = logged.assetsCopied + 1
             /\ broadcasts' = broadcasts + 1
             /\ BagIn([todo |-> 1, done |-> nPairs - 1], copyCycles)
             /\ copyCycles' = copyCycles (-) One([todo |-> 1, done |-> nPairs - 1])
       /\ BagCardinality(copyCycles') < BagCardinality(copyCycles)
          => broadcasts' <= broadcasts + 1
       /\ BroadcastStep
          => logged'.rebuilt + logged'.assetsCopied
                 = logged.rebuilt + logged.assetsCopied + 1
       /\ FullCycles /\ FullCycles']_vars

\* One asset change with the largest number of pairs: the cycle ended, one
\* broadcast reached the registered client.
C13_Witness ==
    /\ nPairs = MaxPairs /\ events = 1
    /\ logged.assetsCopied = 1 /\ broadcasts = 1
    /\ copyCycles = EmptyBag
    /\ \E c \in Conn : Registered(c) /\ conn[c].writes = 1

\* ------------------------------------------------------------------ C14
\* The step ends an asset cycle without a broadcast: a cp of it failed.
CopyFailedStep ==
    /\ BagCardinality(copyCycles') = BagCardinality(copyCycles) - 1
    /\ broadcasts' = broadcasts

\* C14: a copy that fails in an asset cycle is caught by nobody: it is an
\* unhandled rejection (which ends the process or not, as Node is set up),
\* it is not logged as a build error is, and the cycle sends no broadcast;
\* a failed rebuild, in contrast, is caught.
C14_CopyFailureUnhandled ==
    [][/\ CopyFailedStep
          => /\ logged'.unhandled = logged.unhandled + 1
             /\ logged'.buildErrors = logged.buildErrors
             /\ logged'.assetsCopied = logged.assetsCopied
             /\ UNCHANGED hubVars
             /\ exitCode' \in {exitCode, "crash"}
       /\ RebuildFailedStep
          => /\ logged'.unhandled = logged.unhandled
             /\ exitCode' = exitCode]_vars

\* An asset cycle failed and the process went on; the registered client got
\* nothing.
C14_Witness ==
    /\ logged.unhandled = 1 /\ logged.assetsCopied = 0
    /\ events = 1 /\ copyCycles = EmptyBag
    /\ broadcasts = 0 /\ Alive
    /\ \E c \in Conn : Registered(c) /\ conn[c].writes = 0

\* ------------------------------------------------------------------ C15
\* Cycles started so far: in flight or ended, one way or the other.
Cycles ==
    rebuildCycles + BagCardinality(copyCycles) + logged.rebuilt
        + logged.buildErrors + logged.assetsCopied + logged.unhandled

\* C15: k change events have started k cycles, whether or not a cycle was in
\* flight when an event came, and every cycle that ended well has sent its
\* own broadcast.
C15_NoCoalescing ==
    /\ events = Cycles
    /\ broadcasts = logged.rebuilt + logged.assetsCopied

\* Two rebuilds in flight at once.
C15_Witness ==
    /\ events = 2 /\ rebuildCycles = 2
    /\ lifecycle = "Serving"

\* ------------------------------------------------------------------ C16
\* The responses sent, how often a url was requested, and how often it went
\* to fs.readFile.
Sent == Range(http.responses)
Times(url) == Cardinality({i \in 1..Len(http.received) : http.received[i] = url})
Handled(url) ==
    Cardinality({i \in 1..Len(http.reading) : http.reading[i].url = url})
        + Cardinality({i \in 1..Len(http.responses) : http.responses[i].url = url})

\* C16: without watch mode no GET of /__reload reaches the Hub: each is read
\* as a file and answered 404 "Not found", and the client list is empty
\* throughout.  With watch mode every GET of /__reload registers a client
\* and none starts a file read.
C16_ReloadRoute ==
    /\ ~shouldWatch
          => /\ clients = <<>>
             /\ \A c \in Conn : conn[c] = NoConn
             /\ Handled("/__reload") = Times("/__reload")
             /\ \A r \in Sent :
                    r.url = "/__reload"
                        => r.status = 404 /\ r.body = <<"Not found">>
    /\ shouldWatch
          => /\ Len(clients) = Times("/__reload")
             /\ Handled("/__reload") = 0

\* Watch mode off: /__reload was requested twice and answered 404 once so
\* far.
C16_Witness ==
    /\ ~shouldWatch
    /\ Times("/__reload") = 2
    /\ \E r \in Sent : r.url = "/__reload" /\ r.status = 404

\* ------------------------------------------------------------------ C17
\* The url names a file under the root: it can be decoded and the decoded
\* path ("/index.html" for "/") is there.
Present(url) == resolve(url).ok /\ resolve(url).path \in DOMAIN Files

\* C17: a request whose url names no file under the root, be it a path that
\* is not there or a url that cannot be decoded, is answered 404 "Not found"
\* and harms nothing but itself: the process lives, the session is Serving,
\* and every request received is answered, being read, or with the Hub.
C17_MissingIs404 ==
    /\ Alive /\ lifecycle = "Serving"
    /\ \A r \in Sent : ~Present(r.url) => r.status = 404 /\ r.body = <<"Not found">>
    /\ Len(http.received) = Len(clients) + Len(http.reading) + Len(http.responses)

\* ------------------------------------------------------------------ C18
\* The file is an index.html: that is its name, in whatever directory.
IsIndexHtml(filePath) == filePath \in {"/index.html", "/sub/index.html"}

\* C18 as claimed: every file that is there is answered 200 with its own
\* bytes, except a file named index.html in watch mode.
C18_OnlyIndexHtmlModified ==
    \A r \in Sent :
        Present(r.url)
            => /\ r.status = 200
               /\ ~(shouldWatch /\ IsIndexHtml(resolve(r.url).path))
                      => r.body = Files[resolve(r.url).path]

\* C18, amended: every file that is there is answered 200, and with its own
\* bytes unless watch mode is on and its path ends with the characters
\* "index.html"; so without watch mode every file comes unmodified,
\* index.html too.
C18_SuffixModified ==
    \A r \in Sent :
        Present(r.url)
            => /\ r.status = 200
               /\ ~(shouldWatch /\ endsWithIndexHtml(resolve(r.url).path))
                      => r.body = Files[resolve(r.url).path]

\* Watch mode: app.js, which holds the text "</body>", came as it is, and
\* myindex.html came with the script in it.
C18_Witness ==
    /\ shouldWatch
    /\ \E r \in Sent :
           r.url = "/app.js" /\ r.status = 200 /\ r.body = Files["/app.js"]
    /\ \E r \in Sent :
           r.url = "/myindex.html" /\ r.status = 200 /\ script \in Range(r.body)

\* ------------------------------------------------------------------ C19
\* body is content with the script put in once, right in front of the
\* closing tag, and nothing else changed.
Injected(content, body) ==
    \E k \in 1..Len(content) :
        /\ content[k] = "</body>"
        /\ \A j \in (k + 1)..Len(content) : content[j] # "</body>"
        /\ body = SubSeq(content, 1, k - 1) \o <<script>> \o SubSeq(content, k, Len(content))

\* C19: in watch mode the response for a file named index.html is the file
\* with the reload script inserted once, immediately before the closing
\* </body>, and nothing else changed; GET / is answered as GET /index.html.
C19_IndexHtmlInjected ==
    /\ shouldWatch
          => \A r \in Sent :
                 (Present(r.url) /\ IsIndexHtml(resolve(r.url).path))
                     => /\ r.status = 200
                        /\ Injected(Files[resolve(r.url).path], r.body)
    /\ \A r1, r2 \in Sent :
           (r1.url = "/" /\ r2.url = "/index.html")
               => r1.status = r2.status /\ r1.body = r2.body

\* ------------------------------------------------------------------ C20
\* C20: the files that are there when the watchers are created start
\* nothing: as long as no file has changed, a watch-mode session has called
\* ctx.rebuild once and copied every pair once, both at startup, and no
\* broadcast has been sent.
C20_NoInitialEvents ==
    (shouldWatch /\ events = 0)
        => /\ rebuildCycles = 0 /\ copyCycles = EmptyBag
           /\ logged = Quiet
           /\ broadcasts = 0
           /\ \A c \in Conn : conn[c].writes = 0
           /\ Count("rebuild") <= 1 /\ Count("cp") <= nPairs
           /\ assetWatcher # "null" => (Count("rebuild") = 1 /\ Count("cp") = nPairs)

\* A whole watch-mode session without a change, from startup to Stopped, with
\* a reload client connected on the way.
C20_Witness ==
    /\ shouldWatch /\ nPairs = MaxPairs /\ events = 0
    /\ pc = "resolved"
    /\ \E c \in Conn : conn[c].st # "none"

\* ------------------------------------------------------------------ C21
\* The event loop is free: the process runs and nothing is queued by
\* process.nextTick.
LoopFree == exitCode = "running" /\ nextTickQueue = <<>>

ExitAfterShutdown ==
    exitCode = "exit0"
        => /\ Before("closeAll", "exit") /\ Before("resolve", "exit")
           /\ shouldWatch
                  => /\ Before("assetWatcher.close", "exit")
                     /\ Before("sourceWatcher.close", "exit")
           /\ assetWatcher # "watching" /\ sourceWatcher # "watching"
           /\ clients = <<>>
           /\ \A c \in Conn : conn[c].st = "open" => conn[c].ends > 0

\* C22: a termination signal that is handled leads to process.exit(0), and
\* the exit is requested only after the watchers were closed and the Hub's
\* connections ended.  The process dying of an unhandled copy failure is not
\* held against the claim.
C22_SigintLeadsToExit0 ==
    /\ (lifecycle = "ShuttingDown") ~> (exitCode \in {"exit0", "crash"})
    /\ [](exitCode \in {"running", "exit0", "crash", "killed"})
    /\ []ExitAfterShutdown

\* ------------------------------------------------------------------ C28
\* Nothing of watch mode has happened: no watcher, no cycle, no broadcast,
\* the initial copy and the initial rebuild at most once, and a shutdown
\* that closes no watcher.
NoWatching ==
    /\ assetWatcher = "null" /\ sourceWatcher = "null"
    /\ events = 0
    /\ rebuildCycles = 0 /\ copyCycles = EmptyBag
    /\ logged = Quiet
    /\ broadcasts = 0 /\ clients = <<>>
    /\ Count("rebuild") <= 1 /\ Count("cp") <= nPairs
    /\ server # "none" => (Count("rebuild") = 1 /\ Count("cp") = nPairs)
    /\ Count("assetWatcher.close") = 0 /\ Count("sourceWatcher.close") = 0
    /\ pc = "resolved" => (Count("closeAll") = 1 /\ Count("resolve") = 1)

\* C28: without watch mode no watcher exists at any time, so no change of a
\* file starts anything: the copy and the rebuild of startup stay the only
\* ones and no broadcast is sent; a shutdown that has begun reaches Stopped
\* with no watcher to close.
C28_WatchDisabled ==
    /\ [](~shouldWatch => NoWatching)
    /\ (~shouldWatch /\ lifecycle = "ShuttingDown") ~> (lifecycle = "Stopped")

\* A session without watch mode that served a file and was shut down.
C28_Witness ==
    /\ ~shouldWatch /\ nPairs = MaxPairs
    /\ served.done = 1
    /\ pc = "resolved" /\ exitCode = "exit0"

\* ------------------------------------------------------------------ C29
\* C29: while the session is ShuttingDown no watch event is taken, no rebuild
\* or copy cycle starts, and no broadcast is sent.
C29_QuietAfterSigint ==
    [][lifecycle = "ShuttingDown"
          => /\ events' = events
             /\ rebuildCycles' <= rebuildCycles
             /\ BagCardinality(copyCycles') <= BagCardinality(copyCycles)
             /\ broadcasts' = broadcasts
             /\ \A c \in Conn : conn'[c].writes = conn[c].writes]_vars

\* ------------------------------------------------------------------ C30
\* Every step of the shutdown has run at most once.
OneShutdown ==
    /\ \A e \in {"assetWatcher.close", "sourceWatcher.close", "closeAll",
                  "resolve", "exit"} : Count(e) <= 1
    /\ \A c \in Conn : conn[c].ends <= 1
    /\ errors = 0

\* C30: a signal that comes after the first one only calls server.close
\* again: it changes nothing but the callbacks waiting for 'close' and raises
\* no error; however many signals came, each watcher is closed at most once,
\* closeAll runs at most once and the promise resolves at most once.
C30_OneShutdown ==
    [][/\ (signals' = signals + 1 /\ signals >= 1)
          => /\ exitCode' = exitCode
             /\ lifecycle' = lifecycle
             /\ UNCHANGED <<pc, server, assetWatcher, sourceWatcher, nextTickQueue>>
             /\ UNCHANGED hubVars
       /\ OneShutdown /\ OneShutdown']_vars

\* Two signals handled, then the one shutdown: watchers closed, process gone.
C30_Witness ==
    /\ signals = 2 /\ closeCallbacks = 2
    /\ shouldWatch
    /\ Count("assetWatcher.close") = 1 /\ Count("closeAll") = 1
    /\ Count("resolve") = 1
    /\ exitCode = "exit0"

\* ------------------------------------------------------ parseArgs claims
\* What the command line asks for, read off the words the loop has taken.
PortOptions == {"-p", "--port"}
DistOptions == {"-d", "--dist"}
EntryOptions == {"-e", "--entry"}
OutputOptions == {"-o", "--output"}
CopyOptions == {"-c", "--copy"}
TestingOptions == {"-t", "--testing"}
HelpOptions == {"-h", "--help"}
KnownOptions ==
    PortOptions \cup DistOptions \cup EntryOptions \cup OutputOptions
        \cup CopyOptions \cup TestingOptions \cup HelpOptions

\* The words that are integers between 1 and 65535, with their values.
IntegerPorts == [w \in {"8080", "65535"} |-> IF w = "8080" THEN 8080 ELSE 65535]

\* The words of the form from:to, with the pair each one names.
CopyForm ==
    [w \in {"src:dest", "src:"} |->
        [from |-> <<"s", "r", "c">>,
         to |-> IF w = "src:dest" THEN <<"d", "e", "s", "t">> ELSE <<>>]]

Dashed == {"-p", "-d", "--dist", "-e", "-o", "-c", "-t", "-h", "--unknown"}
IsPositional(e) == e.arg \notin Dashed

\* The entries of the words taken so far that are positional arguments.
Positionals(taken) == SelectSeq(taken, IsPositional)

\* One option with a valid value, or a mode word.
ValidEntry(e) ==
    \/ IsPositional(e) /\ e.arg \in {"build", "serve", "profile"}
    \/ e.arg \in PortOptions /\ e.val \in DOMAIN IntegerPorts
    \/ e.arg \in DistOptions \cup EntryOptions \cup OutputOptions
          /\ e.val \notin {undefined, ""}
    \/ e.arg \in CopyOptions /\ e.val \in DOMAIN CopyForm
    \/ e.arg \in TestingOptions

\* A command line made only of valid tokens, with at most one mode.
ValidArgv(taken) ==
    /\ \A i \in 1..Len(taken) : ValidEntry(taken[i])
    /\ Len(Positionals(taken)) <= 1

\* The value of the last option of the family that was given, or the default.
RECURSIVE LastGiven(_, _, _)
LastGiven(taken, family, default) ==
    IF taken = <<>> THEN default
    ELSE IF taken[Len(taken)].arg \in family THEN taken[Len(taken)].val
    ELSE LastGiven(SubSeq(taken, 1, Len(taken) - 1), family, default)

IsCopy(e) == e.arg \in CopyOptions /\ e.val \in DOMAIN CopyForm

\* The pairs the -c options of the command line name, in their order.
PairsGiven(taken) ==
    LET given == SelectSeq(taken, IsCopy)
    IN [i \in 1..Len(given) |-> CopyForm[given[i].val]]

\* The options a valid command line stands for.
Expected(taken) ==
    LET p == LastGiven(taken, PortOptions, "none")
    IN [mode |-> IF Positionals(taken) = <<>> THEN "build"
                 ELSE Positionals(taken)[1].arg,
        port |-> [nan |-> FALSE,
                  num |-> IF p = "none" THEN 1234 ELSE IntegerPorts[p],
                  den |-> 1],
        dist |-> LastGiven(taken, DistOptions, "dist"),
        entry |-> LastGiven(taken, EntryOptions, "src/main.ts"),
        output |-> LastGiven(taken, OutputOptions, "main.js"),
        testing |-> \E i \in 1..Len(taken) : taken[i].arg \in TestingOptions,
        copy |-> PairsGiven(taken)]

\* ------------------------------------------------------------------ C23
\* C23: on a command line made only of valid tokens parseArgs never logs and
\* never calls process.exit, and what it returns is the default options with
\* exactly the given options put over them.
C23_ValidArgvParsed ==
    ValidArgv(cli.shifted) =>
        /\ cli.log = <<>> /\ cli.exits = <<>> /\ cli.st # "exited"
        /\ cli.st = "returned" => cli.result = <<Expected(cli.shifted)>>

\* A mode, a port, a path and the testing flag given together, and returned.
C23_Witness ==
    /\ cli.st = "returned" /\ ValidArgv(cli.shifted)
    /\ Len(cli.result) = 1
    /\ cli.result[1].mode = "serve"
    /\ cli.result[1].port.num = 8080
    /\ cli.result[1].testing
    /\ cli.result[1].entry = "src/main.ts"
    /\ Len(cli.shifted) = 3

\* ------------------------------------------------------------------ C24
TakenLast == cli.shifted[Len(cli.shifted)]

Logged(text) == \E i \in 1..Len(cli.log) : cli.log[i].text = text

\* C24: a -p/--port value is accepted only if it is an integer between 1
\* and 65535, and then the port is that integer; any other value, or none,
\* logs "Invalid port number" and exits with code 1.
C24_PortIntegerInRange ==
    (cli.shifted # <<>> /\ TakenLast.arg \in PortOptions) =>
        IF TakenLast.val \in DOMAIN IntegerPorts
        THEN /\ cli.st # "exited"
             /\ cli.opts.port = [nan |-> FALSE,
                                  num |-> IntegerPorts[TakenLast.val],
                                  den |-> 1]
        ELSE /\ cli.st = "exited" /\ cli.exits = <<1>>
             /\ Logged("Invalid port number")

\* ------------------------------------------------------------------ C25
\* The message that matches the defect of the entry e, met after the valid
\* entries before; "none" when e is no defect.
Defect(before, e) ==
    CASE IsPositional(e) /\ Positionals(before) # <<>> -> "Unexpected argument"
      [] IsPositional(e) /\ e.arg \notin {"build", "serve", "profile"} -> "Invalid mode"
      [] ~IsPositional(e) /\ e.arg \notin KnownOptions -> "Unknown option"
      [] e.arg \in DistOptions \cup EntryOptions \cup OutputOptions
            /\ e.val \in {undefined, ""} -> "Missing value for"
      [] e.arg \in CopyOptions /\ e.val \notin DOMAIN CopyForm -> "Invalid copy pair"
      [] OTHER -> "none"

TakenBefore == SubSeq(cli.shifted, 1, Len(cli.shifted) - 1)

\* C25: when the one defect of the command line is met, parseArgs logs the
\* matching message and the usage text and calls process.exit once, with
\* code 1; process.exit is never called twice, and it is called with code 0
\* only for -h/--help, after the usage text.
C25_OneDefectExitsOnce ==
    /\ Len(cli.exits) <= 1
    /\ (cli.shifted # <<>> /\ ValidArgv(TakenBefore)
            /\ Defect(TakenBefore, TakenLast) # "none")
          => /\ cli.st = "exited" /\ cli.exits = <<1>>
             /\ Len(cli.log) = 2
             /\ cli.log[1].text = Defect(TakenBefore, TakenLast)
             /\ cli.log[1].arg = IF Defect(TakenBefore, TakenLast) = "Invalid copy pair"
                                  THEN TakenLast.val ELSE TakenLast.arg
             /\ cli.log[2].text = "Usage:"
    /\ cli.exits = <<0>>
          => /\ TakenLast.arg \in HelpOptions
             /\ cli.log # <<>> /\ cli.log[Len(cli.log)].text = "Usage:"

\* --dist with an empty value after a valid option: one exit, code 1.
C25_Witness ==
    /\ cli.st = "exited" /\ cli.exits = <<1>>
    /\ Len(cli.shifted) = 2 /\ ValidArgv(TakenBefore)
    /\ TakenLast = [arg |-> "--dist", val |-> ""]
    /\ cli.log[1] = [text |-> "Missing value for", arg |-> "--dist"]

\* ------------------------------------------------------------------ C26
IsPrefix(s, t) == Len(s) <= Len(t) /\ SubSeq(t, 1, Len(s)) = s

\* C26: the copy list holds one pair for each -c/--copy option of the form
\* from:to met so far, in the order of the command line, the list returned
\* is that list, and a turn of the loop never replaces or drops a pair that
\* is in the list.
C26_CopyPairsAppended ==
    [][/\ cli.opts.copy = PairsGiven(cli.shifted)
       /\ cli'.opts.copy = PairsGiven(cli'.shifted)
       /\ IsPrefix(cli.opts.copy, cli'.opts.copy)
       /\ cli'.st = "returned" => cli'.result[1].copy = PairsGiven(cli'.shifted)]_vars

\* Two -c options: both pairs returned, in the order given.
C26_Witness ==
    /\ cli.st = "returned"
    /\ Len(cli.result) = 1
    /\ cli.result[1].copy = <<CopyForm["src:"], CopyForm["src:dest"]>>
    /\ cli.shifted = <<[arg |-> "-c", val |-> "src:"], [arg |-> "-c", val |-> "src:dest"]>>

\* -------------------------------------------------------- loadEnv claims
\* The variable each line defines, as key and value; none for a comment or a
\* line without "=".
Defines ==
    [l \in Lines |->
        CASE l = "A=1" -> <<[key |-> <<"A">>, value |-> <<"1">>]>>
          [] l = "export A=2" -> <<[key |-> <<"A">>, value |-> <<"2">>]>>
          [] l = "B='x'" -> <<[key |-> <<"B">>, value |-> <<"x">>]>>
          [] l = " C = \"y\" " -> <<[key |-> <<"C">>, value |-> <<"y">>]>>
          [] OTHER -> <<>>]

Names == {<<"A">>, <<"B">>, <<"C">>}

\* The lines of a file that was read.
LinesOf(file) ==
    CHOOSE ls \in UNION {[1..n -> Lines] : n \in 0..MaxLines} : join(ls) = file.text

\* The file defines the variable name.
DefinedIn(file, name) ==
    /\ file.exists
    /\ \E i \in 1..Len(LinesOf(file)) :
         Defines[LinesOf(file)[i]] # <<>> /\ Defines[LinesOf(file)[i]][1].key = name

\* The value the file gives the variable: that of the last line defining it.
ValueIn(file, name) ==
    LET ls == LinesOf(file)
        at == {i \in 1..Len(ls) : Defines[ls[i]] # <<>> /\ Defines[ls[i]][1].key = name}
        last == CHOOSE i \in at : \A j \in at : j <= i
    IN Defines[ls[last]][1].value

\* ------------------------------------------------------------------ C27
\* C27: loadEnv reads the default file and exactly one override file,
\* .env.test when testing and .env.local otherwise; a variable of the
\* override file has the override file's value, any other variable of the
\* default file keeps the default file's value, nothing else is returned,
\* and a missing file contributes no variable and stops nothing.
C27_OverrideWins ==
    /\ Len(dotenv.reads) <= 2
    /\ (dotenv.reads # <<>> /\ ~dotenv.reads[1].file.exists) => dotenv.env = <<>>
    /\ (Len(dotenv.reads) = 2 /\ ~dotenv.reads[2].file.exists)
          => dotenv.overrideEnv = <<>> /\ dotenv.st \in {"merge", "returned"}
    /\ dotenv.st = "returned" =>
        LET default == dotenv.reads[1].file
            over == dotenv.reads[2].file
        IN /\ Len(dotenv.reads) = 2
           /\ dotenv.reads[1].path = ".env"
           /\ dotenv.reads[2].path
                = IF dotenv.testing THEN ".env.test" ELSE ".env.local"
           /\ DOMAIN dotenv.result
                = {n \in Names : DefinedIn(default, n) \/ DefinedIn(over, n)}
           /\ \A n \in DOMAIN dotenv.result :
                dotenv.result[n] = IF DefinedIn(over, n) THEN ValueIn(over, n)
                                   ELSE ValueIn(default, n)

\* Testing: A is in both files with different values and keeps the override's,
\* B is only in the default file, C only in the override file.
C27_Witness ==
    /\ dotenv.st = "returned" /\ dotenv.testing
    /\ dotenv.reads[2].path = ".env.test"
    /\ dotenv.reads[1].file.text = join(<<"A=1", "B='x'">>)
    /\ dotenv.reads[2].file.text = join(<<"export A=2", " C = \"y\" ">>)
    /\ dotenv.result[<<"A">>] = <<"2">>
    /\ dotenv.result[<<"B">>] = <<"x">>
    /\ dotenv.result[<<"C">>] = <<"y">>

====
